---- MODULE Spec2Model ----
(***************************************************************************)
(* Agent orchestration core of solargraph-ai: the multi-step ReAct agent   *)
(* (react_agent.py), the single-shot grounding agent with its two-tier     *)
(* cache (llm_agent.py) and the unsynchronised cache-file writes both      *)
(* agents share.                                                           *)
(*                                                                         *)
(* Texts (Python str) are sequences of tokens; a token stands for one      *)
(* character, or for one fixed phrase that the code treats as a unit.      *)
(* Python dicts are functions over the set of keys that are present.       *)
(***************************************************************************)
EXTENDS Naturals, Integers, Sequences, FiniteSets, TLC

\* ------------------------------------------------------------------------
\* Bounds of the model
\* ------------------------------------------------------------------------
\* sessions (answer() calls) of the ReAct agent in one behaviour
MaxSessions == 2
\* tool invocations requested by the generation service over one behaviour
MaxToolCalls == 7
\* completions requested from the generation service over one behaviour
MaxModelCalls == 7
\* LLMAgent.answer calls in one behaviour
MaxAnswers == 2
\* entities in the largest fact base
MaxEntities == 16

\* ------------------------------------------------------------------------
\* Program constants
\* ------------------------------------------------------------------------
MAX_ITERATIONS == 6
CACHE_TTL_SECONDS == 86400

\* ------------------------------------------------------------------------
\* Text helpers: str.strip(), str.lower(), truthiness, hashing
\* ------------------------------------------------------------------------
\* Python's None where a text is expected; no text equals it
None == <<"None">>

IsSpace(c) == c = " "

RECURSIVE LStrip(_)
LStrip(s) == IF s # <<>> /\ IsSpace(Head(s)) THEN LStrip(Tail(s)) ELSE s

RECURSIVE RStrip(_)
RStrip(s) ==
    IF s # <<>> /\ IsSpace(s[Len(s)]) THEN RStrip(SubSeq(s, 1, Len(s) - 1)) ELSE s

\* str.strip()
Strip(s) == RStrip(LStrip(s))

LowerChar(c) == CASE c = "A" -> "a" [] c = "B" -> "b" [] OTHER -> c

\* str.lower()
Lower(s) == [i \in 1..Len(s) |-> LowerChar(s[i])]

\* bool(x) for x a text or None
Truthy(x) == x # None /\ x # <<>>

\* hashlib.sha256(..).hexdigest(): an injective tagging of the hashed text
Sha256(s) == <<"sha256">> \o s

Min(a, b) == IF a < b THEN a ELSE b

\* s[:n]
Take(s, n) == SubSeq(s, 1, Min(Len(s), n))

\* {**d, k: v} / d[k] = v on a dict
DictSet(d, k, v) == [x \in DOMAIN d \cup {k} |-> IF x = k THEN v ELSE d[x]]

\* del d[k]
DictDel(d, k) == [x \in DOMAIN d \ {k} |-> d[x]]

\* {}
EmptyDict == [x \in {} |-> x]

\* ------------------------------------------------------------------------
\* Cache files.  A file holds the text json.dumps wrote, is empty (opened
\* for writing and truncated, nothing written yet), holds a mix of two
\* writes that does not parse, or does not exist.
\* ------------------------------------------------------------------------
NoFile == <<"absent">>
Truncated == <<>>
Corrupt == <<"corrupt">>

\* json.dumps(cache, indent=2)
JsonDumps(cache) == <<"json", cache>>

\* _load_cache(): {} when the file is missing or does not parse
_load_cache(file) ==
    IF file = NoFile \/ file = Truncated \/ file = Corrupt
    THEN EmptyDict ELSE file[2]

\* _save_cache(cache): Path.write_text(json.dumps(cache)) run to completion
_save_cache(cache) == JsonDumps(cache)

\* what Path.write_text may do in _save_cache: write the text, fail to open
\* the file, fail after the open truncated it, or fail part-way through
WriteOutcomes == {"ok", "open_fails", "truncated", "partial"}

\* lines 63-67: the file after _save_cache(cache) returned; the exception
\* of a failed write is logged and dropped
_save_cache_io(cache, file, wr) ==
    CASE wr = "ok" -> _save_cache(cache)
      [] wr = "open_fails" -> file
      [] wr = "truncated" -> Truncated
      [] wr = "partial" -> Corrupt

\* lines 54-60: _load_cache() when read_text may raise (the file exists and
\* cannot be read); the exception is logged and {} returned
_load_cache_io(file, readable) ==
    IF readable THEN _load_cache(file) ELSE EmptyDict

\* ------------------------------------------------------------------------
\* react_agent.py: helpers
\* ------------------------------------------------------------------------
\* _cache_key(q) = sha256(q.strip().lower())
_cache_key(q) == Sha256(Lower(Strip(q)))

\* json.loads on the raw arguments of a tool call.  The raw text is a token
\* sequence "{" k ":" v "}" or "{" "}"; anything else does not parse.
JsonOk(s) ==
    /\ Len(s) >= 2
    /\ s[1] = "{"
    /\ s[Len(s)] = "}"
    /\ \/ Len(s) = 2
       \/ Len(s) = 5 /\ s[3] = ":"

JsonLoads(s) == IF Len(s) = 2 THEN {} ELSE {<<s[2], <<s[4]>>>>}

\* tool_args: json.loads(arguments), {} on JSONDecodeError
ToolArgs(arguments) == IF JsonOk(arguments) THEN JsonLoads(arguments) ELSE {}

HasArg(args, k) == \E p \in args : p[1] = k

\* args[k]
ArgValue(args, k) == (CHOOSE p \in args : p[1] = k)[2]

\* the fact base behind the QueryEngine: the rows each retrieval returns,
\* and the query texts the graph rejects with an exception
\* the rows of a listing whose JSON text is longer than a result preview
LongRows == [i \in 1..301 |-> "f"]

QE == [malformed     |-> {<<"BAD">>},
       sparql        |-> <<"r1", "r2">>,
       details       |-> <<"d1">>,
       search        |-> <<"e1">>,
       absorbers     |-> <<"a1">>,
       architectures |-> <<"c1">>,
       defects       |-> LongRows,
       relationships |-> <<"t1", "t2">>]

\* a retrieval that raised instead of returning rows
QueryFailed == <<"exception">>

\* query_engine.py lines 64-70: self.g.query raises on a query it rejects
_sparql(qe, query) == IF query \in qe.malformed THEN QueryFailed ELSE qe.sparql

\* rows[:n] of a retrieval that returned
TakeRows(rows, n) == IF rows = QueryFailed THEN QueryFailed ELSE Take(rows, n)

\* json.dumps({"error": msg})
ErrorObservation(msg) == <<"error", msg>>

\* lines 139, 156-158: the try/except around the dispatch
Caught(r) == IF r = QueryFailed THEN ErrorObservation("exception") ELSE r

KeyErrorObservation(name, args, k, rows) ==
    IF HasArg(args, k) THEN rows ELSE ErrorObservation(k)

\* the dispatch of lines 140-155
Dispatch(name, args, qe) ==
    CASE name = "sparql_query" ->
           KeyErrorObservation(name, args, "query",
               TakeRows(_sparql(qe, ArgValue(args, "query")), 40))
      [] name = "get_entity_details" ->
           KeyErrorObservation(name, args, "entity_name", qe.details)
      [] name = "keyword_search" ->
           KeyErrorObservation(name, args, "keyword", TakeRows(qe.search, 20))
      [] name = "get_absorbers" -> qe.absorbers
      [] name = "get_architectures" -> qe.architectures
      [] name = "get_defects" -> qe.defects
      [] name = "get_relationships" -> TakeRows(qe.relationships, 60)
      [] OTHER -> ErrorObservation("Unknown tool")

\* a dispatch whose exceptions leave _execute_tool
DispatchUncaught(name, args, qe) == Dispatch(name, args, qe)

_execute_tool(name, args, qe) == Caught(Dispatch(name, args, qe))

\* ------------------------------------------------------------------------
\* State
\* ------------------------------------------------------------------------
VARIABLES
    now,          \* time.time() at the latest call
    \* --- ReActAgent ---
    rCache,       \* self._cache
    rFile,        \* react_cache.json
    pc,           \* state of the reasoning session
    key,          \* key of the session's query
    messages,     \* the transcript
    steps,        \* the trace
    iterations,   \* the iteration counter
    pending,      \* tool calls of the current turn not yet executed
    result,       \* what answer() returned
    modelCalls,   \* completions requested in this session
    requested,    \* tool calls the model requested in this session, in order
    executed,     \* tool calls executed in this session, in order
    doneResult,   \* per key, the result the last Done session returned
    sessions,     \* answer() calls so far
    toolCalls,    \* tool invocations requested so far, over all sessions
    allModelCalls,\* completions requested so far, over all sessions
    \* --- LLMAgent ---
    fileCache,    \* self._file_cache
    cacheFile,    \* cache.json
    lru,          \* entries of the lru_cache around build_context_for_query,
                  \* least recently used first
    lruInfo,      \* cache_info(): hits and misses
    genCalls,     \* completions requested by LLMAgent.answer so far
    answers,      \* LLMAgent.answer calls so far
    lLast,        \* the latest LLMAgent.answer call
    lPrev,        \* the call before it
    lWrite,       \* what the latest write of cache.json did
    lCleared,     \* what the latest LLMAgent.clear_cache removed and returned
    \* --- concurrent writers of one cache file ---
    cCache,       \* the dict the request threads share
    cFile,        \* the cache file
    th,           \* per request thread: position, key, serialized text
    cDurable,     \* keys some completed write has made durable
    cLoad,        \* what a concurrent _load_cache() observed
    \* --- ask_react and its provenance record ---
    pIn,          \* the latest request: query, agent result, fact base
    pOut,         \* the response to it
    \* --- concurrent sessions on one ReActAgent ---
    par,          \* per request thread: the local variables of answer()
    parCache,     \* self._cache, shared by the threads
    parFile,      \* react_cache.json
    parIds,       \* tool call ids the generation service has given out
    parModel      \* completions requested so far, over all threads

sessVars == <<pc, key, messages, steps, iterations, pending, result,
              modelCalls, requested, executed>>
rCacheVars == <<rCache, rFile, doneResult>>
budgetVars == <<sessions, toolCalls, allModelCalls>>

reactVars == <<sessVars, rCacheVars, budgetVars>>
llmVars == <<fileCache, cacheFile, lru, lruInfo, genCalls, answers, lLast, lPrev,
             lWrite, lCleared>>
concVars == <<cCache, cFile, th, cDurable, cLoad>>
provVars == <<pIn, pOut>>
parVars == <<par, parCache, parFile, parIds, parModel>>

vars == <<now, rCache, rFile, pc, key, messages, steps, iterations, pending,
          result, modelCalls, requested, executed, doneResult, sessions,
          toolCalls, allModelCalls, fileCache, cacheFile, lru, lruInfo,
          genCalls, answers, lLast, lPrev, lWrite, lCleared, cCache, cFile, th, cDurable,
          cLoad, pIn, pOut, par, parCache, parFile, parIds, parModel>>

\* ------------------------------------------------------------------------
\* Inputs
\* ------------------------------------------------------------------------
Queries == {<<"a">>, <<" ", "A">>, <<"b">>}

\* the questions of the runs with failures
FaultQueries == {<<"a">>, <<"b">>}

\* what the generation service may return as message content
FinalContents == {None, <<>>, <<"ans">>}

ToolA == [name |-> "sparql_query", arguments |-> <<"{", "query", ":", "Q1", "}">>]
ToolB == [name |-> "get_relationships", arguments |-> <<"{", "}">>]
ToolC == [name |-> "get_defects", arguments |-> <<"{", "}">>]

\* the tool_calls lists one response may carry
TurnRequests == {<<ToolA>>, <<ToolB, ToolA>>}

\* tool_calls lists with a listing whose result is longer than a preview
LongTurnRequests == {<<ToolA>>, <<ToolC, ToolA>>}

\* tool calls that go wrong: a name that is not in the dispatch table, a
\* query the graph rejects, and arguments that are not JSON, for a tool
\* that takes an argument and for a listing that takes none
ToolUnknown == [name |-> "get_weather", arguments |-> <<"{", "}">>]
ToolBadQuery ==
    [name |-> "sparql_query", arguments |-> <<"{", "query", ":", "BAD", "}">>]
ToolNoJson == [name |-> "keyword_search", arguments |-> <<"keyword">>]
ToolNoJsonListing == [name |-> "get_absorbers", arguments |-> <<"{">>]
FaultyTurnRequests ==
    {<<ToolUnknown, ToolA>>, <<ToolBadQuery, ToolB>>,
     <<ToolNoJson, ToolNoJsonListing>>}

\* seconds that may pass between two calls
Elapsed == {CACHE_TTL_SECONDS - 1, CACHE_TTL_SECONDS}

NoResult == [answer |-> None, steps |-> <<>>, iterations |-> 0, cached |-> FALSE]
Raised == [answer |-> <<"raised">>, steps |-> <<>>, iterations |-> 0, cached |-> FALSE]

SYSTEM_PROMPT == <<"SYSTEM_PROMPT">>

Terminal == {"Idle", "Done", "Exhausted", "Aborted"}

\* ------------------------------------------------------------------------
\* ReActAgent.answer
\* ------------------------------------------------------------------------
\* line 175: entry and time.time() - entry["ts"] < CACHE_TTL_SECONDS
ReactFresh(cache, k, t) ==
    k \in DOMAIN cache /\ t - cache[k].ts < CACHE_TTL_SECONDS

\* line 177: {**entry["data"], "cached": True}
HitResultUnmarked(entry) == entry.data
HitResult(entry) == [entry.data EXCEPT !.cached = TRUE]

\* lines 172-183: cache lookup, then the initial transcript; the call is
\* made d seconds after the previous one
Start(q, d) ==
    /\ pc \in Terminal
    /\ sessions < MaxSessions
    /\ sessions' = sessions + 1
    /\ now' = now + d
    /\ key' = _cache_key(q)
    /\ modelCalls' = 0
    /\ requested' = <<>>
    /\ executed' = <<>>
    /\ pending' = <<>>
    /\ steps' = <<>>
    /\ iterations' = 0
    /\ IF ReactFresh(rCache, _cache_key(q), now')
       THEN /\ pc' = "Done"
            /\ result' = HitResult(rCache[_cache_key(q)])
            /\ messages' = <<>>
       ELSE /\ pc' = "AwaitingModel"
            /\ result' = NoResult
            /\ messages' = << [role |-> "system", content |-> SYSTEM_PROMPT],
                              [role |-> "user", content |-> q] >>
    /\ UNCHANGED <<rCacheVars, toolCalls, allModelCalls, llmVars, concVars, provVars, parVars>>

\* line 185: while iterations < MAX_ITERATIONS
LoopContinuesOffByOne(it) == it <= MAX_ITERATIONS
LoopContinuesOneShort(it) == it < MAX_ITERATIONS - 1
LoopContinues(it) == it < MAX_ITERATIONS

\* msg.content or <default>
ContentOr(content, default) == IF Truthy(content) THEN content ELSE default

\* a result that would count the tool-requesting turns only
FinalResultTurns(content, st, it) ==
    [answer |-> ContentOr(content, <<"No answer generated.">>),
     steps |-> st, iterations |-> it - 1, cached |-> FALSE]

\* lines 196-199
FinalResult(content, st, it) ==
    [answer |-> ContentOr(content, <<"No answer generated.">>),
     steps |-> st, iterations |-> it, cached |-> FALSE]

\* line 200: self._cache[key] = {"data": result, "ts": time.time()}
Store(cache, k, res, t) == DictSet(cache, k, [data |-> res, ts |-> t])

\* lines 185-193: the loop test, the counter and the completion request
ModelCall ==
    /\ pc = "AwaitingModel"
    /\ LoopContinues(iterations)
    /\ allModelCalls < MaxModelCalls
    /\ allModelCalls' = allModelCalls + 1
    /\ iterations' = iterations + 1
    /\ modelCalls' = modelCalls + 1
    /\ UNCHANGED <<now, key, steps, executed, sessions, llmVars, concVars, provVars, parVars>>

\* lines 195-202: the response is a final message; wr is what the write of
\* react_cache.json does
ModelFinalIO(content, wr) ==
    /\ ModelCall
    /\ result' = FinalResult(content, steps, iterations')
    /\ rCache' = Store(rCache, key, result', now)
    /\ rFile' = _save_cache_io(rCache', rFile, wr)
    /\ doneResult' = DictSet(doneResult, key, result')
    /\ pc' = "Done"
    /\ UNCHANGED <<messages, pending, requested, toolCalls>>

ModelFinal(content) == ModelFinalIO(content, "ok")

\* the tool calls of a response, with the ids the service gave them
WithIds(calls, base) ==
    [i \in 1..Len(calls) |->
        [id |-> base + i,
         function |-> [name |-> calls[i].name, arguments |-> calls[i].arguments]]]

\* lines 205-212: the assistant message with its tool_calls
AssistantMessage(content, tcs) ==
    [role |-> "assistant", content |-> ContentOr(content, <<>>),
     tool_calls |-> [i \in 1..Len(tcs) |->
        [id |-> tcs[i].id, type |-> "function", function |-> tcs[i].function]]]

\* lines 204-212: the response requests tools
ModelTools(calls) ==
    /\ ModelCall
    /\ toolCalls + Len(calls) <= MaxToolCalls
    /\ toolCalls' = toolCalls + Len(calls)
    /\ pending' = WithIds(calls, toolCalls)
    /\ requested' = requested \o pending'
    /\ messages' = Append(messages, AssistantMessage(None, pending'))
    /\ pc' = "ExecutingTools"
    /\ UNCHANGED <<rCacheVars, result>>

\* a loop that would record the failure of the completion request as the
\* session's result
ModelRaisesStoring ==
    /\ ModelCall
    /\ result' = Raised
    /\ rCache' = Store(rCache, key, Raised, now)
    /\ rFile' = _save_cache(rCache')
    /\ pc' = "Aborted"
    /\ UNCHANGED <<doneResult, messages, pending, requested, toolCalls>>

\* lines 188-192: the completion request raises (transport error); nothing
\* in answer() catches it
ModelRaises ==
    /\ ModelCall
    /\ result' = Raised
    /\ pc' = "Aborted"
    /\ UNCHANGED <<rCacheVars, messages, pending, requested, toolCalls>>

\* a record that would keep the whole result
StepRecordFull(it, tc, result_str) ==
    [iteration |-> it, tool |-> tc.function.name,
     args |-> ToolArgs(tc.function.arguments),
     result_preview |-> result_str]

\* lines 222-225
StepRecord(it, tc, result_str) ==
    [iteration |-> it, tool |-> tc.function.name,
     args |-> ToolArgs(tc.function.arguments),
     result_preview |-> Take(result_str, 300)]

\* a tool message that would not name its call
ToolMessageUnattributed(tc, result_str) ==
    [role |-> "tool", tool_call_id |-> 0, content |-> result_str]

\* lines 226-228
ToolMessage(tc, result_str) ==
    [role |-> "tool", tool_call_id |-> tc.id, content |-> result_str]

\* line 214: the call the for loop over msg.tool_calls takes next
NextCallLast(p) == Len(p)
NextCall(p) == 1

\* lines 214-228: one pass of the for loop over msg.tool_calls
ExecTool ==
    /\ pc = "ExecutingTools"
    /\ pending # <<>>
    /\ LET i == NextCall(pending)
           tc == pending[i]
           result_str == _execute_tool(tc.function.name,
                                       ToolArgs(tc.function.arguments), QE)
       IN /\ steps' = Append(steps, StepRecord(iterations, tc, result_str))
          /\ messages' = Append(messages, ToolMessage(tc, result_str))
          /\ executed' = Append(executed, tc)
          /\ pending' = [j \in 1..(Len(pending) - 1) |->
                            IF j < i THEN pending[j] ELSE pending[j + 1]]
    /\ pc' = IF Len(pending) = 1 THEN "AwaitingModel" ELSE "ExecutingTools"
    /\ UNCHANGED <<now, rCacheVars, budgetVars, key, iterations, result,
                   modelCalls, requested, llmVars, concVars, provVars, parVars>>

\* lines 230-231
ExhaustedResult(st, it) ==
    [answer |-> <<"Reached maximum reasoning steps.">>, steps |-> st,
     iterations |-> it, cached |-> FALSE]

\* a loop that would store the exhausted result like a final answer
ExhaustStoring ==
    /\ pc = "AwaitingModel"
    /\ ~LoopContinues(iterations)
    /\ result' = ExhaustedResult(steps, iterations)
    /\ rCache' = Store(rCache, key, result', now)
    /\ rFile' = _save_cache(rCache')
    /\ doneResult' = DictSet(doneResult, key, result')
    /\ pc' = "Exhausted"
    /\ UNCHANGED <<now, budgetVars, key, messages, steps,
                   iterations, pending, modelCalls, requested, executed,
                   llmVars, concVars, provVars, parVars>>

\* lines 185, 230-231: the loop test fails
Exhaust ==
    /\ pc = "AwaitingModel"
    /\ ~LoopContinues(iterations)
    /\ result' = ExhaustedResult(steps, iterations)
    /\ pc' = "Exhausted"
    /\ UNCHANGED <<now, rCacheVars, budgetVars, key, messages, steps,
                   iterations, pending, modelCalls, requested, executed,
                   llmVars, concVars, provVars, parVars>>

\* no session: the previous one, if any, has returned and is discarded
NoSession ==
    /\ pc' = "Idle"
    /\ key' = <<>>
    /\ messages' = <<>>
    /\ steps' = <<>>
    /\ iterations' = 0
    /\ pending' = <<>>
    /\ result' = NoResult
    /\ modelCalls' = 0
    /\ requested' = <<>>
    /\ executed' = <<>>

\* lines 233-236: ReActAgent.clear_cache, called between two sessions
ReactClearCacheIO(wr) ==
    /\ pc \in Terminal
    /\ DOMAIN rCache # {}
    /\ rCache' = EmptyDict
    /\ rFile' = _save_cache_io(rCache', rFile, wr)
    /\ NoSession
    /\ UNCHANGED <<now, budgetVars, doneResult, llmVars, concVars, provVars, parVars>>

ReactClearCache == ReactClearCacheIO("ok")

\* lines 162-170: ReActAgent.__init__ between two sessions (the process
\* restarts, or app.py lines 147-153 build a new agent); its cache is what
\* _load_cache() returns
ReactRestartIO(readable) ==
    /\ pc \in Terminal
    /\ readable \/ rFile # NoFile
    /\ rCache # _load_cache_io(rFile, readable)
    /\ rCache' = _load_cache_io(rFile, readable)
    /\ NoSession
    /\ UNCHANGED <<now, rFile, budgetVars, doneResult, llmVars, concVars, provVars, parVars>>

\* ------------------------------------------------------------------------
\* llm_agent.py
\* ------------------------------------------------------------------------
LRU_MAXSIZE == 256

\* _make_key(query) = sha256(query.strip().lower())
_make_key(query) == Sha256(Lower(Strip(query)))

\* line 78: time.time() - entry["ts"] > CACHE_TTL_SECONDS
ExpiredAlways(entry, t) == TRUE
Expired(entry, t) == t - entry.ts > CACHE_TTL_SECONDS

\* _get_cached(key, cache): the value returned and the cache it leaves
_get_cached(k, cache, t) ==
    IF k \notin DOMAIN cache
    THEN [value |-> None, cache |-> cache]
    ELSE IF Expired(cache[k], t)
         THEN [value |-> None, cache |-> DictDel(cache, k)]
         ELSE [value |-> cache[k].answer, cache |-> cache]

\* _set_cached(key, answer, cache): the cache it leaves (it is then saved)
_set_cached(k, answer, cache, t) ==
    DictSet(cache, k, [answer |-> answer, ts |-> t])

\* the lru_cache of make_cached_context_builder
LruHas(l, q) == \E i \in 1..Len(l) : l[i].query = q
LruIndex(l, q) == CHOOSE i \in 1..Len(l) : l[i].query = q
LruWithout(l, i) ==
    [j \in 1..(Len(l) - 1) |-> IF j < i THEN l[j] ELSE l[j + 1]]

\* a hit moves the entry to the most recently used end
LruTouch(l, q) == Append(LruWithout(l, LruIndex(l, q)), l[LruIndex(l, q)])

\* a miss stores the built context, evicting the least recently used entry
\* of a full cache
LruInsert(l, q, ctx) ==
    LET e == [query |-> q, context |-> ctx]
    IN IF Len(l) >= LRU_MAXSIZE THEN Append(Tail(l), e) ELSE Append(l, e)

\* line 150: not context.strip()
ContextEmptyNoStrip(context) == context = <<>>
ContextEmpty(context) == Strip(context) = <<>>

\* line 140: if cached_answer
IsHit(cached_answer) == Truthy(cached_answer)

NOT_FOUND ==
    <<"I could not find relevant information in the PV Solar knowledge graph for that query.">>

\* line 178
LlmError(exc) == <<"Error communicating with the LLM: ", exc>>

\* what qe.build_context_for_query may return
BuiltContexts == {<<>>, <<" ">>, <<"ctx">>}

\* qe.build_context_for_query raises: QueryEngine._sparql (query_engine.py
\* lines 64-70) lets a failure of the graph query through
BuildRaises == <<"raises">>

\* what the generation service may do: return a message content or raise
LlmContents == {<<" ">>, <<"x">>, <<" ", "y">>}
LlmResponses ==
    {[raises |-> FALSE, content |-> c] : c \in LlmContents \cup {None}}
       \cup {[raises |-> TRUE, content |-> None]}

\* the inputs of the runs with failures
FaultContexts == {<<"ctx">>, BuildRaises}
FaultResponses ==
    {[raises |-> FALSE, content |-> <<"x">>],
     [raises |-> FALSE, content |-> <<" ">>],
     [raises |-> TRUE, content |-> None]}

\* seconds that may pass between two LLMAgent.answer calls
LlmElapsed == {CACHE_TTL_SECONDS, CACHE_TTL_SECONDS + 1}

NoCall ==
    [called |-> FALSE, key |-> <<>>, query |-> <<>>, answer |-> None,
     outcome |-> "none", gen |-> 0, before |-> 0, after |-> 0, t |-> 0,
     context |-> None, pre |-> <<>>, restarted |-> FALSE]

\* LLMAgent.answer, lines 136-178.  built is what the context build does
\* if the lru_cache misses, resp what the generation service does if it is
\* called, wr what the write of the cache file does if the answer is
\* stored; the call is made d seconds after the previous one.
LlmAnswerIO(q, d, built, resp, wr) ==
    LET t == now + d
        k == _make_key(q)
        got == _get_cached(k, fileCache, t)
        lruHit == LruHas(lru, q)
        context == IF lruHit THEN lru[LruIndex(lru, q)].context ELSE built
        answer == Strip(resp.content)
        outcome ==
            IF IsHit(got.value) THEN "hit"
            ELSE IF context = BuildRaises THEN "raised"
            ELSE IF ContextEmpty(context) THEN "notfound"
            ELSE IF resp.raises \/ resp.content = None THEN "error"
            ELSE "generated"
        ret == CASE outcome = "hit" -> got.value
                 [] outcome = "raised" -> None
                 [] outcome = "notfound" -> NOT_FOUND
                 [] outcome = "error" ->
                      LlmError(IF resp.raises THEN "transport" ELSE "AttributeError")
                 [] outcome = "generated" -> answer
        gen == IF outcome \in {"error", "generated"} THEN 1 ELSE 0
    IN /\ answers < MaxAnswers
       /\ answers' = answers + 1
       /\ now' = t
       /\ fileCache' = IF outcome = "generated"
                       THEN _set_cached(k, answer, got.cache, t)
                       ELSE got.cache
       /\ cacheFile' = IF outcome = "generated"
                       THEN _save_cache_io(fileCache', cacheFile, wr)
                       ELSE cacheFile
       /\ lWrite' = IF outcome = "generated" THEN wr ELSE "none"
       /\ lru' = IF outcome \in {"hit", "raised"} THEN lru
                 ELSE IF lruHit THEN LruTouch(lru, q)
                 ELSE LruInsert(lru, q, built)
       /\ lruInfo' = IF outcome = "hit" THEN lruInfo
                     ELSE IF lruHit
                          THEN [lruInfo EXCEPT !.hits = @ + 1]
                          ELSE [lruInfo EXCEPT !.misses = @ + 1]
       /\ genCalls' = genCalls + gen
       /\ lPrev' = lLast
       /\ lCleared' = lCleared
       /\ lLast' = [called |-> TRUE, key |-> k, query |-> q, answer |-> ret,
                    outcome |-> outcome, gen |-> gen,
                    before |-> Cardinality(DOMAIN fileCache),
                    after |-> Cardinality(DOMAIN fileCache'),
                    t |-> t,
                    context |-> IF outcome \in {"hit", "raised"}
                                THEN None ELSE context,
                    pre |-> IF k \in DOMAIN fileCache
                            THEN <<fileCache[k]>> ELSE <<>>,
                    restarted |-> FALSE]
       /\ UNCHANGED <<reactVars, concVars, provVars, parVars>>

\* the call with a write that succeeds
LlmAnswer(q, d, built, resp) == LlmAnswerIO(q, d, built, resp, "ok")

\* lines 182, 187: n = len(self._file_cache) ... return n
ClearCount(cache, l) == Cardinality(DOMAIN cache)

\* lines 189-198
cache_stats(cache, l, info) ==
    [file_cache_entries |-> Cardinality(DOMAIN cache),
     lru_hits |-> info.hits,
     lru_misses |-> info.misses,
     lru_maxsize |-> LRU_MAXSIZE,
     lru_currsize |-> Len(l),
     cache_ttl_seconds |-> CACHE_TTL_SECONDS]

NotCleared == [called |-> FALSE, n |-> 0, entries |-> 0, contexts |-> 0]

\* LLMAgent.clear_cache, lines 180-187
LlmClearCacheIO(wr) ==
    /\ DOMAIN fileCache # {} \/ lru # <<>>
    /\ fileCache' = EmptyDict
    /\ cacheFile' = _save_cache_io(fileCache', cacheFile, wr)
    /\ lWrite' = wr
    /\ lru' = <<>>
    /\ lruInfo' = [hits |-> 0, misses |-> 0]
    /\ lCleared' = [called |-> TRUE, n |-> ClearCount(fileCache, lru),
                    entries |-> Cardinality(DOMAIN fileCache),
                    contexts |-> Len(lru)]
    /\ lLast' = NoCall
    /\ lPrev' = NoCall
    /\ UNCHANGED <<now, genCalls, answers, reactVars, concVars, provVars, parVars>>

LlmClearCache == LlmClearCacheIO("ok")

\* LLMAgent.__init__, lines 110-123: the process restarts, or api_ingest
\* builds a new agent; its cache is what _load_cache() returns
LlmRestartIO(readable) ==
    /\ fileCache # _load_cache_io(cacheFile, readable) \/ lru # <<>>
    /\ readable \/ cacheFile # NoFile
    /\ fileCache' = _load_cache_io(cacheFile, readable)
    /\ lru' = <<>>
    /\ lruInfo' = [hits |-> 0, misses |-> 0]
    /\ lLast' = [lLast EXCEPT !.restarted = TRUE]
    /\ UNCHANGED <<now, cacheFile, genCalls, answers, lPrev, lWrite, lCleared,
                   reactVars, concVars, provVars, parVars>>

LlmRestart == LlmRestartIO(TRUE)

\* ------------------------------------------------------------------------
\* Concurrent requests on one agent: the store of react_agent.py lines
\* 200-201 (llm_agent.py lines 86-87 is the same sequence), with no lock.
\* Each request thread updates the shared dict, serializes it, opens the
\* file for writing (which truncates it) and writes the text.
\* ------------------------------------------------------------------------
Threads == {1, 2}
ConcKeys == {Sha256(<<"a">>), Sha256(<<"b">>)}

\* a write at offset 0 into a file that already holds text: the longer old
\* text keeps its tail
Overlay(text, old) ==
    IF old = Truncated \/ old = NoFile THEN text
    ELSE IF old = Corrupt THEN Corrupt
    ELSE IF Cardinality(DOMAIN text[2]) < Cardinality(DOMAIN old[2])
         THEN Corrupt ELSE text

ThreadIdle == [pc |-> "idle", key |-> <<>>, seen |-> {}, text |-> <<>>]

\* a request thread arrives with a result to store under key k
CArrive(t, k) ==
    /\ t \notin DOMAIN th
    /\ th' = [x \in DOMAIN th \cup {t} |->
                 IF x = t THEN [ThreadIdle EXCEPT !.key = k] ELSE th[x]]
    /\ UNCHANGED <<cCache, cFile, cDurable, cLoad>>
    /\ UNCHANGED <<now, reactVars, llmVars, provVars, parVars>>

\* line 200: self._cache[key] = {"data": result, "ts": time.time()}
CUpdate(t) ==
    /\ t \in DOMAIN th
    /\ th[t].pc = "idle"
    /\ cCache' = DictSet(cCache, th[t].key, [data |-> t, ts |-> now])
    /\ th' = [th EXCEPT ![t].pc = "updated"]
    /\ UNCHANGED <<cFile, cDurable, cLoad>>
    /\ UNCHANGED <<now, reactVars, llmVars, provVars, parVars>>

\* line 130: json.dumps(cache, indent=2) starts to iterate over the dict
CSerializeBegin(t) ==
    /\ t \in DOMAIN th
    /\ th[t].pc = "updated"
    /\ th' = [th EXCEPT ![t].pc = "serializing", ![t].seen = DOMAIN cCache]
    /\ UNCHANGED <<cCache, cFile, cDurable, cLoad>>
    /\ UNCHANGED <<now, reactVars, llmVars, provVars, parVars>>

\* line 130: the iteration ends.  If the dict changed size meanwhile it
\* raises RuntimeError, which lines 131-132 log: nothing is written.
CSerializeEnd(t) ==
    /\ t \in DOMAIN th
    /\ th[t].pc = "serializing"
    /\ th' = IF th[t].seen = DOMAIN cCache
             THEN [th EXCEPT ![t].pc = "serialized", ![t].text = JsonDumps(cCache)]
             ELSE [th EXCEPT ![t].pc = "done"]
    /\ UNCHANGED <<cCache, cFile, cDurable, cLoad>>
    /\ UNCHANGED <<now, reactVars, llmVars, provVars, parVars>>

\* line 130: Path.write_text opens the file with mode "w"
COpen(t) ==
    /\ t \in DOMAIN th
    /\ th[t].pc = "serialized"
    /\ cFile' = Truncated
    /\ th' = [th EXCEPT ![t].pc = "opened"]
    /\ UNCHANGED <<cCache, cDurable, cLoad>>
    /\ UNCHANGED <<now, reactVars, llmVars, provVars, parVars>>

\* line 130: Path.write_text writes the text and closes the file
CWrite(t) ==
    /\ t \in DOMAIN th
    /\ th[t].pc = "opened"
    /\ cFile' = Overlay(th[t].text, cFile)
    /\ cDurable' = cDurable \cup DOMAIN _load_cache(cFile')
    /\ th' = [th EXCEPT ![t].pc = "done"]
    /\ UNCHANGED <<cCache, cLoad>>
    /\ UNCHANGED <<now, reactVars, llmVars, provVars, parVars>>

\* lines 122-126: _load_cache() by an agent that is constructed meanwhile
\* (app.py lines 147-153, or another worker process)
CLoad ==
    /\ cLoad = <<>>
    /\ cLoad' = <<[cache |-> _load_cache(cFile), durable |-> cDurable]>>
    /\ UNCHANGED <<cCache, cFile, th, cDurable>>
    /\ UNCHANGED <<now, reactVars, llmVars, provVars, parVars>>

\* the fact bases and requests of the provenance runs
EntityTokens ==
    <<"n1", "n2", "n3", "n4", "n5", "n6", "n7", "n8", "n9", "n10", "n11",
      "n12", "n13", "n14", "n15", "n16", "n17", "n18">>

\* a listing with more entities than a record cites
BigListing == [i \in 1..MaxEntities |-> [name |-> <<EntityTokens[i]>>]]

\* a listing with an upper-case name, a name that carries an abbreviation,
\* an empty name and a name listed twice
SmallListing ==
    << [name |-> <<"A">>], [name |-> <<"b", "(", "A", "a", ")">>],
       [name |-> <<>>], [name |-> <<"A">>], [name |-> <<"B", "b">>] >>

\* the rows get_entity_details returns for an entity
StdRows ==
    << [predLabel |-> <<"p1">>, objectName |-> <<"o1">>, dataValue |-> <<>>],
       [predLabel |-> <<"name">>, objectName |-> <<>>, dataValue |-> <<"v">>],
       [predLabel |-> <<"p2">>, objectName |-> <<>>, dataValue |-> <<"v2">>],
       [predLabel |-> <<"p1">>, objectName |-> <<"o1">>, dataValue |-> <<>>],
       [predLabel |-> <<>>, objectName |-> <<"o3">>, dataValue |-> <<>>],
       [predLabel |-> <<"p3">>, objectName |-> <<>>, dataValue |-> <<>>],
       [predLabel |-> <<"p4">>, objectName |-> <<"o4">>, dataValue |-> <<"v4">>],
       [predLabel |-> <<"p5">>, objectName |-> <<"o5">>, dataValue |-> <<>>] >>

\* a fact base with the listing; the details query raises for the names of
\* failing
FactBase(listing, failing) ==
    [entities |-> listing,
     details |-> [n \in {listing[i].name : i \in 1..Len(listing)} |->
                     IF n \in failing THEN QueryFailed ELSE StdRows]]

FactBases ==
    {FactBase(SmallListing, {}), FactBase(BigListing, {}),
     FactBase(SmallListing, {<<"A">>}), FactBase(BigListing, {<<"n9">>}),
     [entities |-> QueryFailed, details |-> <<>>]}

BigAnswer == [i \in 1..MaxEntities |-> EntityTokens[i]]

ProvAnswers ==
    {<<>>, <<"a">>, <<"A">>, <<"a", "a">>, <<"b">>, <<"B", "b">>,
     <<"x", "A", " ", "b", "(", "A", "a", ")">>, BigAnswer, <<"n9">>,
     <<"n16", "n1">>}

\* the traces of the sessions whose answers are recorded
ProvTrace ==
    LET tcs == WithIds(<<ToolA, ToolB, ToolBadQuery, ToolNoJson>>, 0)
    IN [i \in 1..Len(tcs) |->
           StepRecord((i + 1) \div 2, tcs[i],
                      _execute_tool(tcs[i].function.name,
                                    ToolArgs(tcs[i].function.arguments), QE))]

\* a raw query requested with arguments that are not JSON
ToolSparqlNoJson == [name |-> "sparql_query", arguments |-> <<"{">>]

\* a trace with more raw queries than the rendered view shows
LongTrace ==
    LET tcs == WithIds(<<ToolA, ToolBadQuery, ToolB, ToolA, ToolSparqlNoJson,
                         ToolA, ToolNoJson, ToolBadQuery, ToolA>>, 0)
    IN [i \in 1..Len(tcs) |->
           StepRecord((i + 1) \div 2, tcs[i],
                      _execute_tool(tcs[i].function.name,
                                    ToolArgs(tcs[i].function.arguments), QE))]

\* what react_agent.answer returned
ProvResults ==
    {[answer |-> a, steps |-> st, iterations |-> (Len(st) + 1) \div 2 + 1,
      cached |-> c] : a \in ProvAnswers, st \in {<<>>, ProvTrace, LongTrace},
                      c \in BOOLEAN}

ProvQueries == {<<"a">>}

NoRequest == [query |-> <<>>]
NoResponse == [status |-> 0]

\* ------------------------------------------------------------------------
\* provenance.py
\* ------------------------------------------------------------------------
\* needle in hay, for two texts
Contains(hay, needle) ==
    \E i \in 0..(Len(hay) - Len(needle)) :
        SubSeq(hay, i + 1, i + Len(needle)) = needle

\* position of the first ")" after position i, 0 if there is none
ClosingAfter(s, i) ==
    IF \E j \in (i + 1)..Len(s) : s[j] = ")"
    THEN CHOOSE j \in (i + 1)..Len(s) :
             s[j] = ")" /\ \A k \in (i + 1)..(j - 1) : s[k] # ")"
    ELSE 0

\* the pattern \(([^)]{2,20})\) matches at position i
AbbrevAt(s, i) == s[i] = "(" /\ (ClosingAfter(s, i) - i - 1) \in 2..20

\* lines 104-106: the group of the leftmost match, lower-cased, or ""
_abbrev(name) ==
    IF \E i \in 1..Len(name) : AbbrevAt(name, i)
    THEN LET i == CHOOSE i \in 1..Len(name) :
                      AbbrevAt(name, i) /\ \A k \in 1..(i - 1) : ~AbbrevAt(name, k)
         IN Lower(SubSeq(name, i + 1, ClosingAfter(name, i) - 1))
    ELSE <<>>

\* tests that would cite on the abbreviation alone, or cite every entity
MatchesAbbrevOnly(name, answer_lower) ==
    _abbrev(name) # <<>> /\ Contains(answer_lower, _abbrev(name))
MatchesAll(name, answer_lower) == TRUE

\* line 72: name.lower() in answer_lower or (abbrev and abbrev in answer_lower)
Matches(name, answer_lower) ==
    \/ Contains(answer_lower, Lower(name))
    \/ _abbrev(name) # <<>> /\ Contains(answer_lower, _abbrev(name))

\* a list kept as it is
KeepAll(s) == s

\* list(dict.fromkeys(s)): the first occurrence of each element, in order
RECURSIVE Dedupe(_)
Dedupe(s) ==
    IF s = <<>> THEN <<>>
    ELSE LET r == Dedupe(SubSeq(s, 1, Len(s) - 1))
         IN IF \E i \in 1..Len(r) : r[i] = s[Len(s)]
            THEN r ELSE Append(r, s[Len(s)])

\* line 67: [e.get("name", "") for e in all_entities if e.get("name")]
EntityNames(all_entities) ==
    LET named == SelectSeq(all_entities, LAMBDA e : e.name # <<>>)
    IN [i \in 1..Len(named) |-> named[i].name]

\* lines 68-74
Cited(entity_names, answer) ==
    Take(Dedupe(SelectSeq(entity_names,
                          LAMBDA name : Matches(name, Lower(answer)))), 15)

\* lines 80-81: obj = d.get("objectName") or d.get("dataValue", "")
ObjectOf(d) == IF d.objectName # <<>> THEN d.objectName ELSE d.dataValue

\* a filter that keeps every row
KeepsAnyRow(d) == TRUE

\* line 82
KeepsRow(d) ==
    /\ d.predLabel # <<>>
    /\ ObjectOf(d) # <<>>
    /\ d.predLabel \notin {<<"name">>, <<"description">>}

\* lines 77-86: the triples of the rows fetched for the names, in fetch
\* order
RECURSIVE FetchedTriples(_, _)
FetchedTriples(qe, names) ==
    IF names = <<>> THEN <<>>
    ELSE LET ename == names[Len(names)]
             rows == SelectSeq(qe.details[ename], KeepsRow)
         IN FetchedTriples(qe, SubSeq(names, 1, Len(names) - 1)) \o
            [j \in 1..Len(rows) |->
                [subject |-> ename, predicate |-> rows[j].predLabel,
                 object |-> ObjectOf(rows[j])]]

\* qe.get_entity_details raises for one of the names
DetailsFail(qe, names) ==
    \E i \in 1..Len(names) : qe.details[names[i]] = QueryFailed

\* lines 89-90
SparqlUsed(agent_steps) ==
    LET used == SelectSeq(agent_steps, LAMBDA s :
                    /\ s.tool = "sparql_query"
                    /\ HasArg(s.args, "query")
                    /\ ArgValue(s.args, "query") # <<>>)
    IN [i \in 1..Len(used) |-> ArgValue(used[i].args, "query")]

\* a view that lists every query
ShownQueriesAll(qs) == qs

\* lines 53-56: for q in self.sparql_queries_used[:5], each shown as q[:300]
ShownQueries(qs) ==
    [i \in 1..Min(Len(qs), 5) |-> Take(qs[i], 300)]

\* lines 34-57: ProvenanceRecord.to_markdown, as the sections it renders
to_markdown(rec) ==
    [query_id |-> Take(rec.query_id, 16),
     timestamp |-> rec.timestamp_utc,
     iterations |-> rec.agent_iterations,
     cached |-> rec.cached,
     entities |-> rec.cited_entities,
     triples |-> Take(rec.supporting_triples, 25),
     queries |-> ShownQueries(rec.sparql_queries_used)]

\* build_provenance left by an exception of the fact base
ProvRaised == [raised |-> TRUE]

\* lines 60-101; t is datetime.now()
build_provenance(query, answer, qe, agent_steps, agent_iterations, cached, t) ==
    IF qe.entities = QueryFailed THEN ProvRaised
    ELSE LET cited == Cited(EntityNames(qe.entities), answer)
         IN IF DetailsFail(qe, Take(cited, 8)) THEN ProvRaised
            ELSE [raised |-> FALSE,
                  query_id |-> Sha256(query),
                  query_text |-> query,
                  timestamp_utc |-> t,
                  cited_entities |-> cited,
                  supporting_triples |->
                      Take(Dedupe(FetchedTriples(qe, Take(cited, 8))), 25),
                  sparql_queries_used |-> SparqlUsed(agent_steps),
                  agent_iterations |-> agent_iterations,
                  cached |-> cached]

\* the HTTP 500 of a handler left by an exception
ServerError == [status |-> 500]

\* app.py lines 70-92: ask_react after react_agent.answer returned res
AskReact(query, res, qe) ==
    LET prov == build_provenance(query, res.answer, qe, res.steps,
                                 res.iterations, res.cached, now)
    IN /\ pIn' = [query |-> query, result |-> res, qe |-> qe]
       /\ pOut' = IF prov.raised THEN ServerError
                  ELSE [status |-> 200, answer |-> res.answer,
                        steps |-> res.steps,
                        iterations |-> res.iterations,
                        cached |-> res.cached, provenance |-> prov,
                        provenance_md |-> to_markdown(prov),
                        mode |-> "react"]
       /\ UNCHANGED <<now, reactVars, llmVars, concVars, parVars>>

\* ------------------------------------------------------------------------
\* Concurrent sessions on one ReActAgent: answer() runs in several request
\* threads; messages, steps and iterations are local variables of the call
\* (lines 180-183), self._cache is shared (line 170).
\* ------------------------------------------------------------------------
\* a thread that is not in answer()
NoLocals ==
    [pc |-> "Idle", query |-> <<>>, key |-> <<>>, messages |-> <<>>,
     steps |-> <<>>, iterations |-> 0, pending |-> <<>>, requested |-> <<>>,
     modelCalls |-> 0, result |-> NoResult]

\* line 182: steps = [] is a local of the call in thread t
StepsOwnerShared(t) == 1
StepsOwner(t) == t

\* lines 172-183 in thread t
ParStart(t, q) ==
    /\ par[t].pc = "Idle"
    /\ par' = [par EXCEPT ![t] =
          IF ReactFresh(parCache, _cache_key(q), now)
          THEN [NoLocals EXCEPT !.pc = "Done", !.query = q,
                                !.key = _cache_key(q),
                                !.result = HitResult(parCache[_cache_key(q)])]
          ELSE [NoLocals EXCEPT !.pc = "AwaitingModel", !.query = q,
                                !.key = _cache_key(q),
                                !.messages =
                                   << [role |-> "system", content |-> SYSTEM_PROMPT],
                                      [role |-> "user", content |-> q] >>]]
    /\ UNCHANGED <<parCache, parFile, parIds, parModel>>
    /\ UNCHANGED <<now, reactVars, llmVars, concVars, provVars>>

\* lines 185-193 in thread t: the loop test and the completion request
ParModelCall(t) ==
    /\ par[t].pc = "AwaitingModel"
    /\ LoopContinues(par[t].iterations)
    /\ parModel < MaxModelCalls
    /\ parModel' = parModel + 1

\* lines 195-202 in thread t
ParModelFinal(t, content) ==
    /\ ParModelCall(t)
    /\ LET res == FinalResult(content, par[StepsOwner(t)].steps,
                              par[t].iterations + 1)
       IN /\ par' = [par EXCEPT ![t].iterations = @ + 1,
                                ![t].modelCalls = @ + 1,
                                ![t].result = res,
                                ![t].pc = "Done"]
          /\ parCache' = Store(parCache, par[t].key, res, now)
          /\ parFile' = _save_cache(parCache')
    /\ UNCHANGED parIds
    /\ UNCHANGED <<now, reactVars, llmVars, concVars, provVars>>

\* lines 204-212 in thread t
ParModelTools(t, calls) ==
    /\ ParModelCall(t)
    /\ parIds + Len(calls) <= MaxToolCalls
    /\ parIds' = parIds + Len(calls)
    /\ LET tcs == WithIds(calls, parIds)
       IN par' = [par EXCEPT ![t].iterations = @ + 1,
                             ![t].modelCalls = @ + 1,
                             ![t].pending = tcs,
                             ![t].requested = @ \o tcs,
                             ![t].messages =
                                 Append(@, AssistantMessage(None, tcs)),
                             ![t].pc = "ExecutingTools"]
    /\ UNCHANGED <<parCache, parFile>>
    /\ UNCHANGED <<now, reactVars, llmVars, concVars, provVars>>

\* lines 214-228 in thread t: one pass of the for loop
ParExecTool(t) ==
    /\ par[t].pc = "ExecutingTools"
    /\ par[t].pending # <<>>
    /\ LET p == par[t].pending
           i == NextCall(p)
           tc == p[i]
           result_str == _execute_tool(tc.function.name,
                                       ToolArgs(tc.function.arguments), QE)
           o == StepsOwner(t)
           appended == [par EXCEPT ![o].steps =
                           Append(@, StepRecord(par[t].iterations, tc, result_str))]
       IN par' = [appended EXCEPT
                     ![t].messages = Append(@, ToolMessage(tc, result_str)),
                     ![t].pending = [j \in 1..(Len(p) - 1) |->
                                        IF j < i THEN p[j] ELSE p[j + 1]],
                     ![t].pc = IF Len(p) = 1 THEN "AwaitingModel"
                               ELSE "ExecutingTools"]
    /\ UNCHANGED <<parCache, parFile, parIds, parModel>>
    /\ UNCHANGED <<now, reactVars, llmVars, concVars, provVars>>

\* lines 185, 230-231 in thread t
ParExhaust(t) ==
    /\ par[t].pc = "AwaitingModel"
    /\ ~LoopContinues(par[t].iterations)
    /\ par' = [par EXCEPT
                  ![t].result = ExhaustedResult(par[StepsOwner(t)].steps,
                                                par[t].iterations),
                  ![t].pc = "Exhausted"]
    /\ UNCHANGED <<parCache, parFile, parIds, parModel>>
    /\ UNCHANGED <<now, reactVars, llmVars, concVars, provVars>>

\* react_agent.py lines 162-170, llm_agent.py lines 110-123: the agents are
\* constructed from their cache files
Init ==
    /\ now = 0
    /\ rFile = NoFile
    /\ rCache = _load_cache(rFile)
    /\ pc = "Idle"
    /\ key = <<>>
    /\ messages = <<>>
    /\ steps = <<>>
    /\ iterations = 0
    /\ pending = <<>>
    /\ result = NoResult
    /\ modelCalls = 0
    /\ requested = <<>>
    /\ executed = <<>>
    /\ doneResult = EmptyDict
    /\ sessions = 0
    /\ toolCalls = 0
    /\ allModelCalls = 0
    /\ cacheFile = NoFile
    /\ fileCache = _load_cache(cacheFile)
    /\ lru = <<>>
    /\ lruInfo = [hits |-> 0, misses |-> 0]
    /\ genCalls = 0
    /\ answers = 0
    /\ lLast = NoCall
    /\ lPrev = NoCall
    /\ lWrite = "none"
    /\ lCleared = NotCleared
    /\ cFile = NoFile
    /\ cCache = _load_cache(cFile)
    /\ th = <<>>
    /\ cDurable = {}
    /\ cLoad = <<>>
    /\ pIn = NoRequest
    /\ pOut = NoResponse
    /\ par = [t \in Threads |-> NoLocals]
    /\ parFile = NoFile
    /\ parCache = _load_cache(parFile)
    /\ parIds = 0
    /\ parModel = 0

Next ==
    \/ \E q \in Queries, d \in Elapsed : Start(q, d)
    \/ \E c \in FinalContents : ModelFinal(c)
    \/ \E calls \in TurnRequests : ModelTools(calls)
    \/ ModelRaises
    \/ ExecTool
    \/ Exhaust
    \/ ReactClearCache

Spec == Init /\ [][Next]_vars

\* the single-shot agent, called sequentially
NextLLM ==
    \/ \E q \in Queries, d \in LlmElapsed, built \in BuiltContexts,
          resp \in LlmResponses : LlmAnswer(q, d, built, resp)
    \/ LlmClearCache
    \/ LlmRestart

SpecLLM == Init /\ [][NextLLM]_vars

\* the reasoning loop when tool calls go wrong
NextFaults ==
    \/ \E q \in FaultQueries : Start(q, CACHE_TTL_SECONDS)
    \/ ModelFinal(<<"ans">>)
    \/ \E calls \in TurnRequests \cup FaultyTurnRequests : ModelTools(calls)
    \/ ExecTool
    \/ Exhaust

SpecFaults == Init /\ [][NextFaults]_vars

\* the reasoning loop when a tool result is longer than a result preview
NextTrace ==
    \/ \E q \in FaultQueries : Start(q, CACHE_TTL_SECONDS)
    \/ ModelFinal(<<"ans">>)
    \/ \E calls \in LongTurnRequests : ModelTools(calls)
    \/ ExecTool
    \/ Exhaust

SpecTrace == Init /\ [][NextTrace]_vars

\* two request threads in ReActAgent.answer at the same time
NextPar ==
    \/ \E t \in Threads, q \in FaultQueries : ParStart(t, q)
    \/ \E t \in Threads : ParModelFinal(t, <<"ans">>)
    \/ \E t \in Threads, calls \in TurnRequests : ParModelTools(t, calls)
    \/ \E t \in Threads : ParExecTool(t)
    \/ \E t \in Threads : ParExhaust(t)

SpecPar == Init /\ [][NextPar]_vars

\* the reasoning agent when the file system goes wrong; the model answers
\* every question at once or after one retrieval
NextReactIO ==
    \/ \E q \in FaultQueries, d \in Elapsed : Start(q, d)
    \/ \E wr \in WriteOutcomes : ModelFinalIO(<<"ans">>, wr)
    \/ ModelTools(<<ToolA>>)
    \/ ExecTool
    \/ Exhaust
    \/ \E wr \in WriteOutcomes : ReactClearCacheIO(wr)
    \/ \E readable \in BOOLEAN : ReactRestartIO(readable)

SpecReactIO == Init /\ [][NextReactIO]_vars

\* the single-shot agent when the fact base and the file system may fail
NextLLMFaults ==
    \/ \E q \in FaultQueries, d \in LlmElapsed,
          built \in FaultContexts, resp \in FaultResponses,
          wr \in WriteOutcomes : LlmAnswerIO(q, d, built, resp, wr)
    \/ \E wr \in WriteOutcomes : LlmClearCacheIO(wr)
    \/ \E readable \in BOOLEAN : LlmRestartIO(readable)

SpecLLMFaults == Init /\ [][NextLLMFaults]_vars

\* two request threads storing through one agent, and a concurrent load
NextConc ==
    \/ \E t \in Threads, k \in ConcKeys : CArrive(t, k)
    \/ \E t \in Threads : CUpdate(t)
    \/ \E t \in Threads : CSerializeBegin(t)
    \/ \E t \in Threads : CSerializeEnd(t)
    \/ \E t \in Threads : COpen(t)
    \/ \E t \in Threads : CWrite(t)
    \/ CLoad

SpecConc == Init /\ [][NextConc]_vars

\* ask_react requests served one after the other
NextProv ==
    \E query \in ProvQueries, r \in ProvResults, qe \in FactBases :
        AskReact(query, r, qe)

SpecProv == Init /\ [][NextProv]_vars

\* ------------------------------------------------------------------------
\* Properties of the reasoning loop
\* ------------------------------------------------------------------------
\* the tool messages that directly follow the assistant message at position a
ObservationsOf(a) ==
    {p \in (a + 1)..Len(messages) :
        \A j \in (a + 1)..p : messages[j].role = "tool"}

\* C1: a session whose model responses all request tools makes exactly
\* MAX_ITERATIONS completion requests and no more, then returns the
\* exhausted-state answer with iterations = MAX_ITERATIONS, cached = False
\* and a non-empty trace that holds every tool invocation requested.
C1_ExhaustedAfterMaxIterations ==
    /\ modelCalls <= MAX_ITERATIONS
    /\ (pc = "AwaitingModel" /\ modelCalls = MAX_ITERATIONS => ENABLED Exhaust)
    /\ pc = "Exhausted" =>
          /\ modelCalls = MAX_ITERATIONS
          /\ result.answer = <<"Reached maximum reasoning steps.">>
          /\ result.iterations = MAX_ITERATIONS
          /\ result.cached = FALSE
          /\ result.steps # <<>>
          /\ executed = requested
          /\ Len(result.steps) = Len(requested)
          /\ \A i \in 1..Len(requested) :
                result.steps[i].tool = requested[i].function.name

C1_Witness ==
    /\ pc = "Exhausted"
    /\ Len(result.steps) > MAX_ITERATIONS

\* C2: the tool calls of one response are executed in the order listed; their
\* observations follow the assistant message that requested them, in that
\* order, each under its own tool-call id, and are all in the transcript
\* before the next completion request; the trace has the same order.
C2_ObservationsInRequestOrder ==
    /\ \A i \in 1..Len(executed) : executed[i] = requested[i]
    /\ Len(steps) = Len(executed)
    /\ \A i \in 1..Len(steps) : steps[i].tool = executed[i].function.name
    /\ \A a \in 1..Len(messages) :
          messages[a].role = "assistant" =>
             LET tcs == messages[a].tool_calls
                 obs == Cardinality(ObservationsOf(a))
                 seen == IF a + obs = Len(messages)
                         THEN Len(tcs) - Len(pending) ELSE Len(tcs)
             IN /\ obs = seen
                /\ \A i \in 1..seen : messages[a + i].tool_call_id = tcs[i].id
    /\ pc = "AwaitingModel" => pending = <<>> /\ executed = requested

C2_Witness ==
    /\ pc = "AwaitingModel"
    /\ \E a \in 1..Len(messages) :
          /\ messages[a].role = "assistant"
          /\ Len(messages[a].tool_calls) = 2
          /\ messages[a].tool_calls[1].function.name
                # messages[a].tool_calls[2].function.name
          /\ Len(messages) >= a + 2
          /\ messages[a + 1].tool_call_id = messages[a].tool_calls[1].id
          /\ messages[a + 2].tool_call_id = messages[a].tool_calls[2].id

\* C3: a session that ends in Done after a model call returns cached = False
\* and its bundle is stored under the key, in memory and in the file; a
\* session served from the cache makes no model call and no tool call and
\* returns the answer, trace and iteration count the Done session returned,
\* with cached = True.
C3_DoneStoredThenServedFromCache ==
    pc = "Done" =>
       IF modelCalls = 0
       THEN /\ executed = <<>>
            /\ key \in DOMAIN doneResult
            /\ result.cached = TRUE
            /\ result.answer = doneResult[key].answer
            /\ result.steps = doneResult[key].steps
            /\ result.iterations = doneResult[key].iterations
       ELSE /\ result.cached = FALSE
            /\ key \in DOMAIN rCache
            /\ rCache[key].data = result
            /\ key \in DOMAIN _load_cache(rFile)
            /\ _load_cache(rFile)[key].data = result

C3_Witness ==
    /\ pc = "Done"
    /\ modelCalls = 0
    /\ result.cached = TRUE
    /\ result.steps # <<>>

\* C8: once a session has ended (Done, Exhausted or aborted), the session
\* cache holds no expired entry under the session's key, in memory or in the
\* file.
C8_ExpiredSessionEntryEvicted ==
    pc \in {"Done", "Exhausted", "Aborted"} =>
       /\ key \in DOMAIN rCache => now - rCache[key].ts < CACHE_TTL_SECONDS
       /\ key \in DOMAIN _load_cache(rFile) =>
             now - _load_cache(rFile)[key].ts < CACHE_TTL_SECONDS

\* C12: a completion request that raises ends the session with the error
\* surfaced: the failed request was made once, the session makes no model
\* or tool call after it, and the session cache and its file are as they
\* were before the request.
C12_TransportErrorAborts ==
    /\ [](result = Raised => pc = "Aborted")
    /\ [][ (result # Raised /\ result' = Raised) =>
              /\ modelCalls' = modelCalls + 1
              /\ executed' = executed
              /\ rCache' = rCache
              /\ rFile' = rFile ]_vars
    /\ [][ pc = "Aborted" =>
              /\ allModelCalls' = allModelCalls
              /\ toolCalls' = toolCalls
              /\ executed' = executed \/ pc' \in {"Idle", "AwaitingModel", "Done"} ]_vars

C12_Witness ==
    /\ pc = "Aborted"
    /\ result = Raised
    /\ modelCalls >= 2
    /\ executed # <<>>
    /\ DOMAIN rCache # {}

\* the observation the transcript holds for an executed tool call
ObservationFor(tc) ==
    LET m == CHOOSE m \in 1..Len(messages) :
                 /\ messages[m].role = "tool"
                 /\ messages[m].tool_call_id = tc.id
    IN messages[m].content

HasObservation(tc) ==
    \E m \in 1..Len(messages) :
        /\ messages[m].role = "tool"
        /\ messages[m].tool_call_id = tc.id

IsErrorObservation(o) == Len(o) = 2 /\ o[1] = "error"

\* C13: a tool call with a name outside the dispatch table, or one whose
\* retrieval raises, gets an error observation and a trace record like any
\* other call; the other calls of the turn are executed and the loop goes
\* on to the next model call.
C13_BadToolCallIsObserved ==
    /\ pc # "Aborted"
    /\ Len(steps) = Len(executed)
    /\ \A i \in 1..Len(executed) :
          /\ HasObservation(executed[i])
          /\ steps[i].tool = executed[i].function.name
          /\ steps[i].result_preview = Take(ObservationFor(executed[i]), 300)
          /\ executed[i].function \in {ToolUnknown, ToolBadQuery} =>
                IsErrorObservation(ObservationFor(executed[i]))
    /\ pc = "ExecutingTools" => pending # <<>> /\ executed \o pending = requested
    /\ pc \in {"AwaitingModel", "Done", "Exhausted"} => executed = requested
    /\ ( /\ pc = "AwaitingModel"
         /\ LoopContinues(iterations)
         /\ allModelCalls < MaxModelCalls ) => ENABLED ModelFinal(<<"ans">>)

C13_Witness ==
    /\ pc = "Done"
    /\ result.answer = <<"ans">>
    /\ \E i, j \in 1..Len(executed) :
          /\ executed[i].function = ToolUnknown
          /\ executed[j].function = ToolBadQuery
          /\ IsErrorObservation(ObservationFor(executed[i]))
          /\ IsErrorObservation(ObservationFor(executed[j]))
    /\ Len(result.steps) = 4

\* C14: a tool call whose arguments are not JSON gets an error observation
\* in the transcript, whichever tool it names.
C14_UnparsedArgumentsAreAnError ==
    \A i \in 1..Len(executed) :
        ~JsonOk(executed[i].function.arguments) =>
            /\ HasObservation(executed[i])
            /\ IsErrorObservation(ObservationFor(executed[i]))

\* ------------------------------------------------------------------------
\* Properties of the single-shot agent
\* ------------------------------------------------------------------------
\* C4: a second LLMAgent.answer call with the same normalized query, made
\* while the entry the first call wrote is unexpired, returns the same text
\* and does not add an entry to the persistent cache.
C4_SecondCallIdempotent ==
    ( /\ lLast.called
      /\ lPrev.called
      /\ lPrev.outcome = "generated"
      /\ lLast.key = lPrev.key
      /\ lLast.t - lPrev.t <= CACHE_TTL_SECONDS )
    => /\ lLast.answer = lPrev.answer
       /\ lLast.after <= lLast.before

\* C5: a miss with a non-empty context and a successful generation calls the
\* generation service once and leaves the text stored under the key, in the
\* mapping and in the file; a second identical call returns that text with
\* no further generation-service call.
C5_GeneratedOnceThenCached ==
    /\ (lLast.called /\ lLast.outcome = "generated") =>
          /\ lLast.gen = 1
          /\ lLast.key \in DOMAIN fileCache
          /\ fileCache[lLast.key].answer = lLast.answer
          /\ lLast.key \in DOMAIN _load_cache(cacheFile)
          /\ _load_cache(cacheFile)[lLast.key].answer = lLast.answer
    /\ ( /\ lLast.called
         /\ lPrev.called
         /\ lPrev.outcome = "generated"
         /\ lLast.query = lPrev.query
         /\ lLast.t - lPrev.t <= CACHE_TTL_SECONDS )
       => /\ lLast.answer = lPrev.answer
          /\ lLast.gen = 0

\* C6: on a cache miss, a built context that is empty or whitespace only
\* makes answer() return the fixed not-found message without calling the
\* generation service.
C6_EmptyContextNotFound ==
    ( /\ lLast.called
      /\ lLast.context # None
      /\ Strip(lLast.context) = <<>> )
    => /\ lLast.gen = 0
       /\ lLast.answer = NOT_FOUND

C6_Witness ==
    /\ lLast.called
    /\ lLast.context = <<" ">>
    /\ lLast.pre # <<>>
    /\ lLast.answer = NOT_FOUND

\* C7: a lookup that finds an entry older than the TTL treats it as absent,
\* and after the call the cache file no longer holds that entry, whatever
\* the outcome of the call.
C7_ExpiredEntryRemovedFromFile ==
    ( /\ lLast.called
      /\ lLast.pre # <<>>
      /\ lLast.t - lLast.pre[1].ts > CACHE_TTL_SECONDS )
    => /\ lLast.outcome # "hit"
       /\ lLast.key \in DOMAIN _load_cache(cacheFile) =>
             _load_cache(cacheFile)[lLast.key] # lLast.pre[1]

\* C11: LLMAgent.answer returns a string to its caller whatever fails: a
\* failure of the generation service and a failure of the fact base during
\* the context build both become an answer text, never an exception.
C11_AnswerNeverRaises ==
    lLast.called => lLast.outcome # "raised" /\ lLast.answer # None

\* C15: a rewrite of cache.json that fails after the file was opened, during
\* a put or a clear, leaves every entry the file held before loadable, with
\* the value it had.
C15_FailedWriteKeepsDurable ==
    [][ lWrite' \in {"truncated", "partial"} =>
          \A k \in DOMAIN _load_cache(cacheFile) :
              /\ k \in DOMAIN _load_cache(cacheFile')
              /\ _load_cache(cacheFile')[k] = _load_cache(cacheFile)[k] ]_vars

\* C16: a failing write of cache.json does not cost the request its answer,
\* and while the process lives a later lookup of the key, within the TTL,
\* is a hit from the in-memory mapping that returns the stored answer even
\* though the file does not hold the key.
C16_CacheFailureNeverAborts ==
    /\ ( /\ lLast.called
         /\ lLast.outcome = "generated"
         /\ ~lLast.restarted
         /\ lWrite # "ok" )
       => /\ lLast.answer # None
          /\ lLast.key \in DOMAIN fileCache
          /\ fileCache[lLast.key].answer = lLast.answer
    /\ ( /\ lPrev.called
         /\ lPrev.outcome = "generated"
         /\ ~lPrev.restarted
         /\ lLast.called
         /\ lLast.key = lPrev.key
         /\ lLast.t - lPrev.t <= CACHE_TTL_SECONDS
         /\ lLast.key \notin DOMAIN _load_cache(cacheFile) )
       => /\ lLast.outcome = "hit"
          /\ lLast.answer = lPrev.answer

\* ------------------------------------------------------------------------
\* Properties of the unsynchronised cache file
\* ------------------------------------------------------------------------
\* C9: when two concurrent requests have stored entries under different
\* keys and both have finished, the cache file holds both entries.
C9_BothEntriesPersisted ==
    ( /\ DOMAIN th = Threads
      /\ \A t \in Threads : th[t].pc = "done"
      /\ th[1].key # th[2].key )
    => {th[1].key, th[2].key} \subseteq DOMAIN _load_cache(cFile)

\* C10: a _load_cache() that runs while requests are saving never starts
\* with fewer entries than completed writes had made durable.
C10_LoadSeesDurableEntries ==
    cLoad # <<>> => cLoad[1].durable \subseteq DOMAIN cLoad[1].cache

\* ------------------------------------------------------------------------
\* Properties of the provenance record
\* ------------------------------------------------------------------------
\* the listing of the latest request, its names and the names the record cites
Listed == EntityNames(pIn.qe.entities)
CitedNames == pOut.provenance.cited_entities
InSeq(x, sq) == \E i \in 1..Len(sq) : sq[i] = x
FirstIndex(sq, x) == CHOOSE i \in 1..Len(sq) : sq[i] = x /\ \A k \in 1..(i - 1) : sq[k] # x

\* C17 as stated: every listed entity name whose exact text occurs in the
\* answer is in cited_entities, however many names match.
C17_EveryOccurringNameCited ==
    pOut.status = 200 =>
        \A i \in 1..Len(Listed) :
            Contains(pIn.result.answer, Listed[i]) => InSeq(Listed[i], CitedNames)

\* C17 amended: a listed entity name whose exact text occurs in the answer
\* is in cited_entities unless 15 names that come before it in the listing
\* are cited already.
C17_OccurringNameCitedUpToCap ==
    pOut.status = 200 =>
        \A i \in 1..Len(Listed) :
            Contains(pIn.result.answer, Listed[i]) =>
                \/ InSeq(Listed[i], CitedNames)
                \/ /\ Len(CitedNames) = 15
                   /\ \A c \in 1..15 :
                         FirstIndex(Listed, CitedNames[c]) < FirstIndex(Listed, Listed[i])

C17_Witness ==
    /\ pOut.status = 200
    /\ Len(CitedNames) = 15
    /\ \E i \in 1..Len(Listed) :
          /\ Contains(pIn.result.answer, Listed[i])
          /\ ~InSeq(Listed[i], CitedNames)
    /\ \A c \in 1..15 : Contains(pIn.result.answer, CitedNames[c])

\* C18 as stated: an entity whose name does not occur in the answer text
\* (letter case ignored) is never in cited_entities.
C18_AbsentNameNeverCited ==
    pOut.status = 200 =>
        \A c \in 1..Len(CitedNames) :
            Contains(Lower(pIn.result.answer), Lower(CitedNames[c]))

\* C18 amended: an entity is in cited_entities only if its name, or the
\* abbreviation its name carries in parentheses, occurs in the answer text,
\* letter case ignored.
C18_CitedNameOrAbbreviationOccurs ==
    pOut.status = 200 =>
        \A c \in 1..Len(CitedNames) :
            \/ Contains(Lower(pIn.result.answer), Lower(CitedNames[c]))
            \/ /\ _abbrev(CitedNames[c]) # <<>>
               /\ Contains(Lower(pIn.result.answer), _abbrev(CitedNames[c]))

C18_Witness ==
    /\ pOut.status = 200
    /\ \E c \in 1..Len(CitedNames) :
          /\ ~Contains(Lower(pIn.result.answer), Lower(CitedNames[c]))
          /\ _abbrev(CitedNames[c]) = <<"a", "a">>
    /\ \E i \in 1..Len(Listed) : ~InSeq(Listed[i], CitedNames)

\* C19: when the fact base fails during build_provenance, ask_react still
\* delivers the answer with a provenance record.
C19_ProvenanceFailureDeliversAnswer ==
    pIn # NoRequest =>
        /\ pOut.status = 200
        /\ pOut.answer = pIn.result.answer
        /\ ~pOut.provenance.raised

\* C20: cited_entities holds names of the listing only, holds no name
\* twice, keeps the order of the listing and holds at most 15 names.
C20_CitedListedUniqueOrderedCapped ==
    pOut.status = 200 =>
        /\ Len(CitedNames) <= 15
        /\ \A c \in 1..Len(CitedNames) : InSeq(CitedNames[c], Listed)
        /\ \A c, d \in 1..Len(CitedNames) :
              c < d => /\ CitedNames[c] # CitedNames[d]
                       /\ FirstIndex(Listed, CitedNames[c]) < FirstIndex(Listed, CitedNames[d])

C20_Witness ==
    /\ pOut.status = 200
    /\ Len(CitedNames) = 2
    /\ \E i, j \in 1..Len(Listed) :
          i < j /\ Listed[i] = Listed[j] /\ Listed[i] = CitedNames[1]

\* the triples of the latest record, and the place of a triple's row in the
\* rows fetched for its subject
Triples == pOut.provenance.supporting_triples
RowIndex(t) ==
    LET rows == pIn.qe.details[t.subject]
    IN CHOOSE k \in 1..Len(rows) :
           /\ rows[k].predLabel = t.predicate
           /\ ObjectOf(rows[k]) = t.object
           /\ \A m \in 1..(k - 1) :
                 ~(rows[m].predLabel = t.predicate /\ ObjectOf(rows[m]) = t.object)

\* C21: supporting_triples holds at most 25 triples, no triple twice, none
\* with the predicate name or description, only subjects among the first 8
\* cited entities, in the order in which the rows were fetched.
C21_TriplesCappedUniqueFiltered ==
    pOut.status = 200 =>
        /\ Len(Triples) <= 25
        /\ \A i \in 1..Len(Triples) :
              /\ Triples[i].predicate \notin {<<"name">>, <<"description">>}
              /\ InSeq(Triples[i].subject, Take(CitedNames, 8))
              /\ \E k \in 1..Len(pIn.qe.details[Triples[i].subject]) :
                    /\ pIn.qe.details[Triples[i].subject][k].predLabel = Triples[i].predicate
                    /\ ObjectOf(pIn.qe.details[Triples[i].subject][k]) = Triples[i].object
        /\ \A i, j \in 1..Len(Triples) :
              i < j =>
                 /\ Triples[i] # Triples[j]
                 /\ FirstIndex(CitedNames, Triples[i].subject)
                       <= FirstIndex(CitedNames, Triples[j].subject)
                 /\ Triples[i].subject = Triples[j].subject =>
                       RowIndex(Triples[i]) < RowIndex(Triples[j])

C21_Witness ==
    /\ pOut.status = 200
    /\ Len(Triples) = 25
    /\ Len(CitedNames) > 8
    /\ Triples[25].subject = CitedNames[7]

\* the steps of the latest request's trace that are raw queries carrying a
\* query text
RawQuerySteps ==
    {j \in 1..Len(pIn.result.steps) :
        /\ pIn.result.steps[j].tool = "sparql_query"
        /\ HasArg(pIn.result.steps[j].args, "query")}

\* C22: sparql_queries_used holds the query text of every sparql_query step
\* of the trace that carries one, in trace order, and nothing else; the
\* rendered view shows the first 5 of them at most.
C22_QueriesOfTheTraceInOrder ==
    pOut.status = 200 =>
        /\ Len(pOut.provenance.sparql_queries_used) = Cardinality(RawQuerySteps)
        /\ \A j \in RawQuerySteps :
              pOut.provenance.sparql_queries_used[
                  Cardinality({k \in RawQuerySteps : k <= j})]
                = ArgValue(pIn.result.steps[j].args, "query")
        /\ Len(pOut.provenance_md.queries) <= 5
        /\ \A i \in 1..Len(pOut.provenance_md.queries) :
              pOut.provenance_md.queries[i] = pOut.provenance.sparql_queries_used[i]

C22_Witness ==
    /\ pOut.status = 200
    /\ Len(pOut.provenance.sparql_queries_used) = 6
    /\ Len(pOut.provenance_md.queries) = 5
    /\ pOut.provenance.sparql_queries_used[2] = <<"BAD">>
    /\ Len(pIn.result.steps) = 9

\* ------------------------------------------------------------------------
\* Properties of the two cache tiers
\* ------------------------------------------------------------------------
\* C23: right after LLMAgent.clear_cache the persistent tier (mapping and
\* file) and the context tier are empty, cache_stats reports zero for both,
\* and the count returned is the number of entries removed from the two
\* tiers together.
C23_ClearEmptiesAndCountsBothTiers ==
    (lCleared.called /\ lLast = NoCall) =>
        /\ DOMAIN fileCache = {}
        /\ DOMAIN _load_cache(cacheFile) = {}
        /\ lru = <<>>
        /\ cache_stats(fileCache, lru, lruInfo).file_cache_entries = 0
        /\ cache_stats(fileCache, lru, lruInfo).lru_currsize = 0
        /\ lCleared.n = lCleared.entries + lCleared.contexts

\* C24: clearing the cached answers leaves the entries of the in-memory
\* context tier in place, so that the next identical query needs no new
\* context build.
C24_AnswersClearedContextsKept ==
    [][ ( /\ lCleared'.called
          /\ lLast' = NoCall
          /\ lLast # NoCall
          /\ DOMAIN fileCache # {} ) => lru' = lru ]_vars

\* C25: queries that differ only in surrounding whitespace and letter case
\* have the same key in both agents, and once one of them is answered and
\* stored the other is a hit that returns the same answer while the entry
\* is fresh.
C25_NormalizedQueriesShareTheEntry ==
    /\ \A q1, q2 \in Queries :
          Lower(Strip(q1)) = Lower(Strip(q2)) =>
              /\ _make_key(q1) = _make_key(q2)
              /\ _cache_key(q1) = _cache_key(q2)
    /\ ( /\ lPrev.called
         /\ lPrev.outcome = "generated"
         /\ lLast.called
         /\ lLast.query # lPrev.query
         /\ Lower(Strip(lLast.query)) = Lower(Strip(lPrev.query))
         /\ lLast.t - lPrev.t <= CACHE_TTL_SECONDS )
       => /\ lLast.outcome = "hit"
          /\ lLast.answer = lPrev.answer

\* what a get of the key of the last call yields d seconds after that call
GetAfterPut(d) == _get_cached(lLast.key, fileCache, lLast.t + d).value

\* C26: round trip of the persistent answer cache: after put(query, answer)
\* a get(query) made within the TTL yields exactly that answer and is
\* treated as a hit, for every answer text that can be stored, the empty
\* text included.
C26_PutThenGetIsAHit ==
    (lLast.called /\ lLast.outcome = "generated") =>
        \A d \in {0, CACHE_TTL_SECONDS} :
            /\ GetAfterPut(d) = lLast.answer
            /\ IsHit(GetAfterPut(d))

\* the last call found an entry of its key that was older than the TTL
FoundExpired ==
    /\ lLast.pre # <<>>
    /\ lLast.t - lLast.pre[1].ts > CACHE_TTL_SECONDS

\* C27 as stated: no LLMAgent.answer call decreases the number of entries
\* of the persistent answer cache.
C27_CountNeverDecreases ==
    lLast.called => lLast.after >= lLast.before

\* C27: an LLMAgent.answer call decreases the number of entries of the
\* persistent answer cache only by evicting the expired entry of its own
\* key, and then by exactly one; a call that finds no expired entry never
\* decreases it.
C27_CountDecreasesOnlyByEviction ==
    lLast.called =>
        /\ lLast.after >= lLast.before - 1
        /\ ~FoundExpired => lLast.after >= lLast.before
        /\ lLast.after < lLast.before => lLast.outcome # "generated"

C27_Witness ==
    /\ lLast.called
    /\ FoundExpired
    /\ lLast.outcome = "notfound"
    /\ lLast.after = lLast.before - 1

\* the session is inside the reasoning loop
InLoop == pc \in {"AwaitingModel", "ExecutingTools"}

\* C28: within a reasoning session the trace is append-only: every step of
\* the loop leaves the records already in the trace unchanged and in place
\* and only appends new ones; each record's result preview has at most 300
\* characters; each record's iteration field is the number of model calls
\* made when it was created, so the iteration fields are non-decreasing
\* along the trace and lie between 1 and MAX_ITERATIONS.
C28_TraceAppendOnly ==
    /\ [](\A i \in 1..Len(steps) :
            /\ Len(steps[i].result_preview) <= 300
            /\ steps[i].iteration \in 1..MAX_ITERATIONS
            /\ i > 1 => steps[i - 1].iteration <= steps[i].iteration)
    /\ [][ InLoop =>
            /\ Len(steps') >= Len(steps)
            /\ Take(steps', Len(steps)) = steps
            /\ \A i \in (Len(steps) + 1)..Len(steps') :
                  steps'[i].iteration = modelCalls' ]_vars

C28_Witness ==
    /\ Len(steps) >= 3
    /\ \E i \in 1..Len(steps) :
          /\ steps[i].tool = "get_defects"
          /\ Len(steps[i].result_preview) = 300
          /\ Len(_execute_tool("get_defects", ToolArgs(ToolC.arguments), QE)) > 300
    /\ steps[1].iteration < steps[Len(steps)].iteration

\* the tool-requesting turns of the session: its assistant messages
ToolTurns ==
    Cardinality({i \in 1..Len(messages) : messages[i].role = "assistant"})

\* C29: when the loop of a session ends in Done, the returned iteration
\* count is the number of model calls made in the session, which is the
\* number of tool-requesting turns plus one, and the trace has exactly one
\* record per tool call requested, in the order of the requests.
C29_DoneCountsCallsAndRecords ==
    (pc = "Done" /\ ~result.cached) =>
        /\ result.iterations = modelCalls
        /\ modelCalls = ToolTurns + 1
        /\ Len(result.steps) = Len(requested)
        /\ \A i \in 1..Len(requested) :
              result.steps[i].tool = requested[i].function.name

C29_Witness ==
    /\ pc = "Done"
    /\ ~result.cached
    /\ ToolTurns = 1
    /\ Len(requested) = 1
    /\ Len(result.steps) = 1
    /\ result.iterations = 2

\* C30: a reasoning session calls the generation service at most
\* MAX_ITERATIONS times; it ends Exhausted only after MAX_ITERATIONS
\* responses that all requested tools; a final message returned on the
\* MAX_ITERATIONS-th model call ends the session in Done with that message,
\* which is stored in the cache.
C30_CapAndLastCallFinal ==
    /\ [](modelCalls <= MAX_ITERATIONS)
    /\ [](pc = "Exhausted" =>
            /\ modelCalls = MAX_ITERATIONS
            /\ ToolTurns = MAX_ITERATIONS
            /\ result = ExhaustedResult(steps, MAX_ITERATIONS))
    /\ [][ (pc = "AwaitingModel" /\ modelCalls = MAX_ITERATIONS - 1
                /\ modelCalls' = MAX_ITERATIONS /\ ToolTurns' = ToolTurns)
            => /\ pc' \in {"Done", "Aborted"}
               /\ pc' = "Done" =>
                    /\ result'.answer \in {ContentOr(c, <<"No answer generated.">>) :
                                              c \in FinalContents}
                    /\ ~result'.cached
                    /\ key \in DOMAIN rCache'
                    /\ rCache'[key].data = result' ]_vars

C30_Witness ==
    /\ pc = "Done"
    /\ ~result.cached
    /\ modelCalls = MAX_ITERATIONS
    /\ result.answer = <<"ans">>
    /\ rCache[key].data = result

\* C31: every list-shaped tool result appended to the transcript is capped
\* in its number of rows (at most 60, the largest cap of the dispatch
\* table), for every tool, whatever the size of the fact base.
C31_ToolResultsAreCapped ==
    \A i \in 1..Len(messages) :
        messages[i].role = "tool" => Len(messages[i].content) <= 60

\* the last call returned an answer that no generation produced
Ungenerated(call) == call.called /\ call.outcome \in {"notfound", "error"}

\* C32: an answer returned without a successful generation (the not-found
\* message or the error string) is never cached: the answer cache holds no
\* entry of that key after the call, and the next identical call is not a
\* hit.
C32_UngeneratedAnswersNotCached ==
    /\ (Ungenerated(lLast) /\ ~lLast.restarted) =>
            lLast.key \notin DOMAIN fileCache
    /\ (Ungenerated(lPrev) /\ lLast.called /\ lLast.query = lPrev.query) =>
            lLast.outcome # "hit"

\* C33: a session that ends in Exhausted does not write to the session
\* cache: no step of the loop other than the final message changes the
\* cache in memory or on disk, the exhausted answer is never stored nor
\* served as a hit, and the next query with the same key runs the loop.
C33_ExhaustedIsNotCached ==
    /\ [][ (InLoop /\ pc' # "Done") =>
               /\ rCache' = rCache
               /\ rFile' = rFile ]_vars
    /\ [](\A k \in DOMAIN rCache :
            rCache[k].data.answer # ExhaustedResult(<<>>, 0).answer)
    /\ []((pc = "Done" /\ result.cached) =>
            result.answer # ExhaustedResult(<<>>, 0).answer)
    /\ [][ (pc = "Exhausted" /\ sessions' = sessions + 1 /\ key' = key) =>
               pc' = "AwaitingModel" ]_vars

C33_Witness ==
    /\ pc = "Exhausted"
    /\ sessions = 2
    /\ key \in DOMAIN rCache
    /\ rCache[key].data.answer = <<"ans">>
    /\ rFile = _save_cache(rCache)

\* the ages at which an entry is looked up: below, at and above the TTL
LookupAges ==
    {CACHE_TTL_SECONDS - 1, CACHE_TTL_SECONDS, CACHE_TTL_SECONDS + 1}

\* C34: the answer cache and the session cache apply the same freshness
\* rule: an entry of any age, an age equal to the TTL included, is served by
\* _get_cached if and only if the lookup of ReActAgent.answer finds an
\* entry of that age fresh.
C34_SameFreshnessRule ==
    \A k \in DOMAIN fileCache, age \in LookupAges :
        LET t == fileCache[k].ts + age
        IN ~Expired(fileCache[k], t) <=> ReactFresh(fileCache, k, t)

\* C35: whenever no cache operation is in progress, the cache file of an
\* agent and the in-process mapping of that agent hold the same entries, so
\* a restarted agent loads exactly the entries the process would serve.
C35_FileMatchesMemory ==
    /\ _load_cache(cacheFile) = fileCache
    /\ _load_cache(rFile) = rCache

\* the ids of the tool calls requested in the model turns of thread t
OwnIds(t) == {par[t].requested[i].id : i \in 1..Len(par[t].requested)}

\* the trace st has one record per tool call requested by thread t so far
\* executed, in the order of the requests
TraceOfOwnCalls(t, st) ==
    /\ Len(st) = Len(par[t].requested) - Len(par[t].pending)
    /\ \A i \in 1..Len(st) :
          /\ st[i].tool = par[t].requested[i].function.name
          /\ st[i].args = ToolArgs(par[t].requested[i].function.arguments)
          /\ st[i].iteration <= par[t].iterations

\* C36: two sessions running concurrently on one ReActAgent do not share
\* transcript, trace or iteration counter: under every interleaving the
\* trace a session returns has exactly the tool invocations requested in
\* its own model turns, in order, its transcript carries its own query and
\* only its own tool calls, and its iteration count is the number of its
\* own model calls.
C36_SessionsShareNoLocals ==
    \A t \in Threads :
        /\ par[t].iterations = par[t].modelCalls
        /\ (par[t].pc \in {"AwaitingModel", "ExecutingTools"}) =>
              /\ TraceOfOwnCalls(t, par[t].steps)
              /\ par[t].messages[2].content = par[t].query
        /\ (par[t].pc \in {"Done", "Exhausted"} /\ ~par[t].result.cached) =>
              /\ TraceOfOwnCalls(t, par[t].result.steps)
              /\ par[t].result.iterations = par[t].modelCalls
        /\ \A i \in 1..Len(par[t].messages) :
              /\ par[t].messages[i].role = "tool" =>
                    par[t].messages[i].tool_call_id \in OwnIds(t)
              /\ par[t].messages[i].role = "assistant" =>
                    \A j \in 1..Len(par[t].messages[i].tool_calls) :
                        par[t].messages[i].tool_calls[j].id \in OwnIds(t)

C36_Witness ==
    /\ \A t \in Threads : par[t].pc = "Done" /\ ~par[t].result.cached
    /\ par[1].result.steps # par[2].result.steps
    /\ par[1].result.iterations # par[2].result.iterations
    /\ \E a, c \in OwnIds(1), b \in OwnIds(2) : a < b /\ b < c

\* positions of the tool observations of the transcript
ToolPositions == {i \in 1..Len(messages) : messages[i].role = "tool"}

\* the assistant message at j requested the call the observation at i
\* answers, and only observations lie between them
AnswersTurn(i, j) ==
    /\ j < i
    /\ messages[j].role = "assistant"
    /\ \E c \in 1..Len(messages[j].tool_calls) :
          messages[j].tool_calls[c].id = messages[i].tool_call_id
    /\ \A m \in (j + 1)..(i - 1) : messages[m].role = "tool"

\* C37: at every model call of a session the transcript starts with the
\* system message and the user query, every tool observation follows an
\* assistant message whose tool-call list contains the observation's call
\* id, each requested call id has exactly one observation, and there are as
\* many tool observations as trace records; inside the loop the transcript
\* is only ever appended to.
C37_TranscriptWellFormed ==
    /\ [](pc = "AwaitingModel" =>
            /\ Len(messages) >= 2
            /\ messages[1] = [role |-> "system", content |-> SYSTEM_PROMPT]
            /\ messages[2].role = "user"
            /\ _cache_key(messages[2].content) = key
            /\ \A i \in ToolPositions : \E j \in 1..Len(messages) : AnswersTurn(i, j)
            /\ \A r \in 1..Len(requested) :
                  Cardinality({i \in ToolPositions :
                      messages[i].tool_call_id = requested[r].id}) = 1
            /\ Cardinality(ToolPositions) = Len(steps))
    /\ [][ InLoop =>
               /\ Len(messages') >= Len(messages)
               /\ Take(messages', Len(messages)) = messages ]_vars

C37_Witness ==
    /\ pc = "AwaitingModel"
    /\ Cardinality(ToolPositions) >= 3
    /\ Cardinality({i \in 1..Len(messages) : messages[i].role = "assistant"}) >= 2
    /\ \E i \in ToolPositions :
          messages[i].content = ErrorObservation("keyword")

====
